---------------------------- MODULE Spec2Model ----------------------------
(***************************************************************************)
(* A model of the apcupsd Prometheus collector (upscollector.go).          *)
(*                                                                         *)
(* The collector owns a static set of metric descriptors.  Describe sends  *)
(* the descriptors; Collect asks the StatusSource for one status snapshot  *)
(* and sends one invalid metric (fetch error) or thirty constant metrics.  *)
(*                                                                         *)
(* Strings that the code inspects (the status text, the flag tokens) are   *)
(* sequences of one-character strings, so that strings.Contains is a real  *)
(* substring search.  int64 values are pairs <<hi, lo>> standing for       *)
(* hi * 2^30 + lo with 0 <= lo < 2^30, so that Unix seconds and their      *)
(* conversion to float64 keep their width.                                 *)
(***************************************************************************)
EXTENDS Integers, Sequences, FiniteSets, TLC

(***************************************************************************)
(* Bounds of the model.                                                    *)
(***************************************************************************)
\* Largest number of flag tokens joined into one generated status text.
MaxTokens == 2
\* Largest number of Collect calls in one behaviour.
MaxCalls == 3

(***************************************************************************)
(* Strings.                                                                *)
(***************************************************************************)
\* strings.Contains(s, substr): substr occurs in s at some offset.
\* Faulty variants: whole-text match, prefix match.
ContainsOnlyWhole(s, substr) == s = substr
ContainsOnlyPrefix(s, substr) ==
    /\ Len(substr) <= Len(s)
    /\ SubSeq(s, 1, Len(substr)) = substr
Contains(s, substr) ==
    \E k \in 0..(Len(s) - Len(substr)) : SubSeq(s, k + 1, k + Len(substr)) = substr

(***************************************************************************)
(* int64 and float64.                                                      *)
(***************************************************************************)
Base == 2^30

I64(hi, lo) == <<hi, lo>>

I64Add(a, b) ==
    LET lo == a[2] + b[2]
    IN  IF lo >= Base THEN <<a[1] + b[1] + 1, lo - Base>>
                      ELSE <<a[1] + b[1], lo>>

I64Neg(a) == IF a[2] = 0 THEN <<-a[1], 0>> ELSE <<-a[1] - 1, Base - a[2]>>

\* The number of low bits that do not fit the 53-bit significand of a
\* float64, for a magnitude hi * 2^30 + lo.
RECURSIVE Shift(_)
Shift(hi) == IF hi < 2^23 THEN 0 ELSE 1 + Shift(hi \div 2)

\* A magnitude rounded to 53 significant bits, to nearest, ties to even.
RoundMagnitude(m) ==
    LET q    == 2^Shift(m[1])
        r    == m[2] % q
        down == m[2] - r
        up   == 2 * r > q \/ (2 * r = q /\ (down \div q) % 2 = 1)
        lo   == IF up THEN down + q ELSE down
    IN  IF lo = Base THEN <<m[1] + 1, 0>> ELSE <<m[1], lo>>

\* A float64 is modelled as int + nanos / 10^9, int an int64 pair.
Float(int, nanos) == [int |-> int, nanos |-> nanos]

\* A small whole number as a float64.
F(n) == Float(I64(0, n), 0)

\* float64(x) for an int64 x.
Float64OfInt64(x) ==
    Float(IF x[1] < 0 THEN I64Neg(RoundMagnitude(I64Neg(x))) ELSE RoundMagnitude(x), 0)

(***************************************************************************)
(* time.Time and time.Duration.                                            *)
(***************************************************************************)
\* A Time is the seconds since January 1, year 1 (an int64) and the
\* nanoseconds within the second.
Time(sec, nsec) == [sec |-> sec, nsec |-> nsec]

\* time.Time.IsZero
IsZero(t) == t.sec = I64(0, 0) /\ t.nsec = 0

\* -62135596800, the offset from the year 1 epoch to the Unix epoch.
internalToUnix == I64(-58, 141428992)

\* time.Time.Unix
Unix(t) == I64Add(t.sec, internalToUnix)

\* A Duration is whole seconds and the nanoseconds left over
\* (d / Second and d % Second).
Duration(sec, nsec) == [sec |-> sec, nsec |-> nsec]

\* time.Duration.Seconds: float64(sec) + float64(nsec)/1e9
Seconds(d) == Float(Float64OfInt64(d.sec).int, d.nsec)

\* timestamp(t)
\* Faulty variant: no check of the zero Time.
timestampNoZeroCheck(t) == Float64OfInt64(Unix(t))
timestamp(t) == IF IsZero(t) THEN F(0) ELSE Float64OfInt64(Unix(t))

(***************************************************************************)
(* Descriptors and the collector.                                          *)
(***************************************************************************)
\* prometheus.NewDesc(BuildFQName(namespace, "", name), help, labels, nil).
\* The descriptor is identified by its name and its label schema.
NewDesc(name, variableLabels) == [fqName |-> name, variableLabels |-> variableLabels]

labels == <<"ups_name", "hostname", "model">>

NewUPSCollector(ss) ==
    [ Info                                |-> NewDesc("info", <<"ups_name", "hostname", "model">>),
      Status                              |-> NewDesc("status", <<"ups_name", "hostname", "model", "status">>),
      UPSLoadPercent                      |-> NewDesc("ups_load_percent", labels),
      BatteryChargePercent                |-> NewDesc("battery_charge_percent", labels),
      LineVolts                           |-> NewDesc("line_volts", labels),
      LineNominalVolts                    |-> NewDesc("line_nominal_volts", labels),
      OutputVolts                         |-> NewDesc("output_volts", labels),
      BatteryVolts                        |-> NewDesc("battery_volts", labels),
      BatteryNominalVolts                 |-> NewDesc("battery_nominal_volts", labels),
      BatteryNumberTransfersTotal         |-> NewDesc("battery_number_transfers_total", labels),
      BatteryTimeLeftSeconds              |-> NewDesc("battery_time_left_seconds", labels),
      BatteryTimeOnSeconds                |-> NewDesc("battery_time_on_seconds", labels),
      BatteryCumulativeTimeOnSecondsTotal |-> NewDesc("battery_cumulative_time_on_seconds_total", labels),
      LastTransferOnBatteryTimeSeconds    |-> NewDesc("last_transfer_on_battery_time_seconds", labels),
      LastTransferOffBatteryTimeSeconds   |-> NewDesc("last_transfer_off_battery_time_seconds", labels),
      LastSelftestTimeSeconds             |-> NewDesc("last_selftest_time_seconds", labels),
      NominalPowerWatts                   |-> NewDesc("nominal_power_watts", labels),
      InternalTemperatureCelsius          |-> NewDesc("internal_temperature_celsius", labels),
      ss                                  |-> ss ]

\* The descriptors Describe sends, in order.
\* Faulty variant: the last descriptor is left out.
DescribeWithoutTemperature(col) ==
    << col.Info, col.Status, col.UPSLoadPercent, col.BatteryChargePercent,
       col.LineVolts, col.LineNominalVolts, col.OutputVolts, col.BatteryVolts,
       col.BatteryNominalVolts, col.BatteryNumberTransfersTotal,
       col.BatteryTimeLeftSeconds, col.BatteryTimeOnSeconds,
       col.BatteryCumulativeTimeOnSecondsTotal,
       col.LastTransferOnBatteryTimeSeconds, col.LastTransferOffBatteryTimeSeconds,
       col.LastSelftestTimeSeconds, col.NominalPowerWatts >>
Describe(col) ==
    << col.Info, col.Status, col.UPSLoadPercent, col.BatteryChargePercent,
       col.LineVolts, col.LineNominalVolts, col.OutputVolts, col.BatteryVolts,
       col.BatteryNominalVolts, col.BatteryNumberTransfersTotal,
       col.BatteryTimeLeftSeconds, col.BatteryTimeOnSeconds,
       col.BatteryCumulativeTimeOnSecondsTotal,
       col.LastTransferOnBatteryTimeSeconds, col.LastTransferOffBatteryTimeSeconds,
       col.LastSelftestTimeSeconds, col.NominalPowerWatts,
       col.InternalTemperatureCelsius >>

(***************************************************************************)
(* Metrics.                                                                *)
(***************************************************************************)
NoErr == "nil"

\* prometheus.NewInvalidMetric(desc, err)
NewInvalidMetric(desc, err) ==
    [desc |-> desc, valueType |-> "Invalid", labelValues |-> <<>>, err |-> err]

\* prometheus.MustNewConstMetric(desc, valueType, value, labelValues...)
\* panics when the label values do not match the descriptor's label schema.
ConstMetricPanics(desc, labelValues) == Len(labelValues) # Len(desc.variableLabels)

MustNewConstMetric(desc, valueType, value, labelValues) ==
    [desc |-> desc, valueType |-> valueType, value |-> value,
     labelValues |-> labelValues, err |-> NoErr]

\* The flag tokens of Collect, in order.
upsStatus ==
    <<  <<"C", "A", "L">>,
        <<"T", "R", "I", "M">>,
        <<"B", "O", "O", "S", "T">>,
        <<"O", "N", "L", "I", "N", "E">>,
        <<"O", "N", "B", "A", "T", "T">>,
        <<"O", "V", "E", "R", "L", "O", "A", "D">>,
        <<"L", "O", "W", "B", "A", "T", "T">>,
        <<"R", "E", "P", "L", "A", "C", "E", "B", "A", "T", "T">>,
        <<"N", "O", "B", "A", "T", "T">>,
        <<"S", "L", "A", "V", "E">>,
        <<"S", "L", "A", "V", "E", "D", "O", "W", "N">>,
        <<"C", "O", "M", "M", "L", "O", "S", "T">>,
        <<"S", "H", "U", "T", "T", "I", "N", "G", " ", "D", "O", "W", "N">> >>

\* One iteration of the loop over upsStatus.
\* Faulty variant: the status label is the snapshot's text.
StatusMetricRawLabel(col, s, status) ==
    MustNewConstMetric(col.Status, "Gauge",
        IF Contains(s.Status, status) THEN F(1) ELSE F(0),
        <<s.UPSName, s.Hostname, s.Model, s.Status>>)
StatusMetric(col, s, status) ==
    MustNewConstMetric(col.Status, "Gauge",
        IF Contains(s.Status, status) THEN F(1) ELSE F(0),
        <<s.UPSName, s.Hostname, s.Model, status>>)

\* The metrics Collect sends after the loop, in order.
\* Faulty variant: the charge is sent on the load descriptor.
FieldMetricsCopyPaste(col, s) ==
    LET lv == <<s.UPSName, s.Hostname, s.Model>>
    IN  << MustNewConstMetric(col.Info, "Gauge", F(1), lv),
           MustNewConstMetric(col.UPSLoadPercent, "Gauge", s.LoadPercent, lv),
           MustNewConstMetric(col.UPSLoadPercent, "Gauge", s.BatteryChargePercent, lv),
           MustNewConstMetric(col.LineVolts, "Gauge", s.LineVoltage, lv),
           MustNewConstMetric(col.LineNominalVolts, "Gauge", s.NominalInputVoltage, lv),
           MustNewConstMetric(col.OutputVolts, "Gauge", s.OutputVoltage, lv),
           MustNewConstMetric(col.BatteryVolts, "Gauge", s.BatteryVoltage, lv),
           MustNewConstMetric(col.BatteryNominalVolts, "Gauge", s.NominalBatteryVoltage, lv),
           MustNewConstMetric(col.BatteryNumberTransfersTotal, "Counter",
                              Float64OfInt64(s.NumberTransfers), lv),
           MustNewConstMetric(col.BatteryTimeLeftSeconds, "Gauge", Seconds(s.TimeLeft), lv),
           MustNewConstMetric(col.BatteryTimeOnSeconds, "Gauge", Seconds(s.TimeOnBattery), lv),
           MustNewConstMetric(col.BatteryCumulativeTimeOnSecondsTotal, "Counter",
                              Seconds(s.CumulativeTimeOnBattery), lv),
           MustNewConstMetric(col.LastTransferOnBatteryTimeSeconds, "Gauge",
                              timestamp(s.XOnBattery), lv),
           MustNewConstMetric(col.LastTransferOffBatteryTimeSeconds, "Gauge",
                              timestamp(s.XOffBattery), lv),
           MustNewConstMetric(col.LastSelftestTimeSeconds, "Gauge",
                              timestamp(s.LastSelftest), lv),
           MustNewConstMetric(col.NominalPowerWatts, "Gauge",
                              Float64OfInt64(s.NominalPower), lv),
           MustNewConstMetric(col.InternalTemperatureCelsius, "Gauge", s.InternalTemp, lv) >>
FieldMetrics(col, s) ==
    LET lv == <<s.UPSName, s.Hostname, s.Model>>
    IN  << MustNewConstMetric(col.Info, "Gauge", F(1), lv),
           MustNewConstMetric(col.UPSLoadPercent, "Gauge", s.LoadPercent, lv),
           MustNewConstMetric(col.BatteryChargePercent, "Gauge", s.BatteryChargePercent, lv),
           MustNewConstMetric(col.LineVolts, "Gauge", s.LineVoltage, lv),
           MustNewConstMetric(col.LineNominalVolts, "Gauge", s.NominalInputVoltage, lv),
           MustNewConstMetric(col.OutputVolts, "Gauge", s.OutputVoltage, lv),
           MustNewConstMetric(col.BatteryVolts, "Gauge", s.BatteryVoltage, lv),
           MustNewConstMetric(col.BatteryNominalVolts, "Gauge", s.NominalBatteryVoltage, lv),
           MustNewConstMetric(col.BatteryNumberTransfersTotal, "Counter",
                              Float64OfInt64(s.NumberTransfers), lv),
           MustNewConstMetric(col.BatteryTimeLeftSeconds, "Gauge", Seconds(s.TimeLeft), lv),
           MustNewConstMetric(col.BatteryTimeOnSeconds, "Gauge", Seconds(s.TimeOnBattery), lv),
           MustNewConstMetric(col.BatteryCumulativeTimeOnSecondsTotal, "Counter",
                              Seconds(s.CumulativeTimeOnBattery), lv),
           MustNewConstMetric(col.LastTransferOnBatteryTimeSeconds, "Gauge",
                              timestamp(s.XOnBattery), lv),
           MustNewConstMetric(col.LastTransferOffBatteryTimeSeconds, "Gauge",
                              timestamp(s.XOffBattery), lv),
           MustNewConstMetric(col.LastSelftestTimeSeconds, "Gauge",
                              timestamp(s.LastSelftest), lv),
           MustNewConstMetric(col.NominalPowerWatts, "Gauge",
                              Float64OfInt64(s.NominalPower), lv),
           MustNewConstMetric(col.InternalTemperatureCelsius, "Gauge", s.InternalTemp, lv) >>

\* Every metric a Collect with snapshot s sends once the fetch succeeded,
\* in the order of the sends.
Metrics(col, s) ==
    [k \in 1..Len(upsStatus) |-> StatusMetric(col, s, upsStatus[k])] \o FieldMetrics(col, s)

\* The nil *apcupsd.Status.
Nil == [nil |-> TRUE]

\* A result of StatusSource.Status(): a snapshot pointer and an error.
Result(s, err) == [s |-> s, err |-> err]

\* err != nil: the one metric Collect sends before it returns.
\* Faulty variant: the invalid metric is attached to Status.
FetchFailedOnStatus(col, err) == NewInvalidMetric(col.Status, err)
FetchFailed(col, err) == NewInvalidMetric(col.Info, err)

\* One whole run of Collect on the fetch result r: what it sends, in order,
\* and how it ends.  A nil snapshot without an error panics at s.Status,
\* before the first send; MustNewConstMetric panics at a label mismatch.
CollectRun(col, r) ==
    IF r.err # NoErr
    THEN [sent |-> <<FetchFailed(col, r.err)>>, end |-> "returned"]
    ELSE IF r.s = Nil
    THEN [sent |-> <<>>, end |-> "panicked"]
    ELSE LET ms  == Metrics(col, r.s)
             bad == {k \in DOMAIN ms : ConstMetricPanics(ms[k].desc, ms[k].labelValues)}
         IN  IF bad = {}
             THEN [sent |-> ms, end |-> "returned"]
             ELSE [sent |-> SubSeq(ms, 1, (CHOOSE k \in bad : \A j \in bad : k <= j) - 1),
                   end  |-> "panicked"]

(***************************************************************************)
(* What the StatusSource may return.                                       *)
(***************************************************************************)
ZeroTime        == Time(I64(0, 0), 0)
\* The first second of year 1 with a non-zero nanosecond: not the zero Time.
YearOneNanoTime == Time(I64(0, 0), 1)
\* 1970-01-01 00:00:00 UTC: Unix second 0.
UnixEpochTime   == Time(I64(57, 932312832), 0)
\* 1969-01-01 00:00:00 UTC: Unix second -31536000.
Before1970Time  == Time(I64(57, 900776832), 0)
\* 2019-02-12 19:33:20 UTC: Unix second 1550000000.
RecentTime      == Time(I64(59, 334829184), 0)
RecentNanoTime  == Time(I64(59, 334829184), 999999999)
\* Unix seconds 2^53 + 1, 2^53 + 3, 2^54 + 2 and 2^54 + 6.
FarTime1        == Time(I64(8388665, 932312833), 0)
FarTime2        == Time(I64(8388665, 932312835), 0)
FarTime3        == Time(I64(16777273, 932312834), 0)
FarTime4        == Time(I64(16777273, 932312838), 0)

CommonTimes == {ZeroTime, Before1970Time, RecentTime}
RareTimes   == {YearOneNanoTime, UnixEpochTime, RecentNanoTime,
                FarTime1, FarTime2, FarTime3, FarTime4}

\* The status text "ONLINE".
OnlineText == upsStatus[4]

BaseStatus ==
    [ UPSName                 |-> "ups1",
      Hostname                |-> "host1",
      Model                   |-> "Back-UPS ES 600",
      Status                  |-> OnlineText,
      LoadPercent             |-> Float(I64(0, 12), 500000000),
      BatteryChargePercent    |-> F(100),
      LineVoltage             |-> F(230),
      NominalInputVoltage     |-> F(230),
      OutputVoltage           |-> F(229),
      BatteryVoltage          |-> Float(I64(0, 13), 600000000),
      NominalBatteryVoltage   |-> F(12),
      NumberTransfers         |-> I64(0, 3),
      TimeLeft                |-> Duration(I64(0, 90), 0),
      TimeOnBattery           |-> Duration(I64(0, 0), 0),
      CumulativeTimeOnBattery |-> Duration(I64(0, 125), 500000000),
      XOnBattery              |-> ZeroTime,
      XOffBattery             |-> ZeroTime,
      LastSelftest            |-> ZeroTime,
      NominalPower            |-> I64(0, 600),
      InternalTemp            |-> F(29) ]

\* The tokens of the index set S joined by single spaces, in vocabulary order.
RECURSIVE JoinTokens(_)
JoinTokens(S) ==
    IF S = {} THEN <<>>
    ELSE LET m    == CHOOSE x \in S : \A y \in S : x <= y
             rest == JoinTokens(S \ {m})
         IN  IF rest = <<>> THEN upsStatus[m] ELSE upsStatus[m] \o <<" ">> \o rest

\* Status texts made of at most MaxTokens tokens that follow one another in
\* the vocabulary (the empty text included), and the text of all the tokens.
TokenTexts ==
    {JoinTokens(w[1]..w[2]) :
        w \in {v \in (1..Len(upsStatus)) \X (0..Len(upsStatus)) : v[2] - v[1] < MaxTokens}}
    \cup {JoinTokens(1..Len(upsStatus))}

\* Status texts outside the vocabulary: truncated, lower case, embedded.
OtherTexts ==
    { <<"O", "N", "L", "I", "N">>,
      <<"o", "n", "l", "i", "n", "e">>,
      <<"X", "O", "N", "L", "I", "N", "E", "X">>,
      <<"S", "H", "U", "T", "T", "I", "N", "G">>,
      <<"S", "L", "A", "V", "E", "D", "O", "W">>,
      <<"B", "A", "T", "T">>,
      <<"O", "N", "L", "I", "N", "E", " ">> }

StatusTexts == TokenTexts \cup OtherTexts

Snapshots ==
    {[BaseStatus EXCEPT !.Status = st] : st \in StatusTexts}
    \cup {[BaseStatus EXCEPT !.XOnBattery = a, !.XOffBattery = b, !.LastSelftest = d]
             : a \in CommonTimes, b \in CommonTimes, d \in CommonTimes}
    \cup {[BaseStatus EXCEPT !.XOnBattery = a, !.XOffBattery = a, !.LastSelftest = a]
             : a \in RareTimes}
    \cup {[BaseStatus EXCEPT !.UPSName = "ups2", !.Hostname = "host2", !.Model = "",
                             !.TimeOnBattery = Duration(I64(0, 61), 250000000)]}

Errors == {"dial tcp: connection refused", "EOF"}

FetchResults ==
    {Result(s, NoErr) : s \in Snapshots \cup {Nil}}
    \cup {Result(Nil, e) : e \in Errors}
    \cup {Result(BaseStatus, e) : e \in Errors}

\* The results drawn when two cycles run concurrently.
ConcurrentResults ==
    { Result(BaseStatus, NoErr),
      Result([BaseStatus EXCEPT !.UPSName = "ups2", !.Status = upsStatus[11],
                                !.XOnBattery = RecentTime], NoErr),
      Result(Nil, NoErr),
      Result(Nil, "EOF") }

(***************************************************************************)
(* The state.                                                              *)
(***************************************************************************)
\* The cycles (calls of Collect) that may be in progress at once.
Cycles == {1, 2}
\* The cycle used when calls of Collect follow one another.
SequentialCycles == {1}

VARIABLES
    c,        \* the UPSCollector
    dch,      \* what the latest Describe sent on its channel
    pc,       \* per cycle: "idle", "status", "run", "returned" or "panicked"
    s,        \* per cycle: Collect's local s
    err,      \* per cycle: Collect's local err
    ch,       \* per cycle: what Collect sent on its channel
    ret,      \* per cycle: what the status source returned to it
    fetches,  \* per cycle: invocations of c.ss.Status() by this call
    invoked,  \* invocations of the status source, in total
    calls     \* calls of Collect, in total

vars == <<c, dch, pc, s, err, ch, ret, fetches, invoked, calls>>

\* The status source has not returned to the cycle yet.
NotFetched == Result(Nil, "pending")

Init ==
    /\ c = NewUPSCollector("ss")
    /\ dch = <<>>
    /\ pc = [p \in Cycles |-> "idle"]
    /\ s = [p \in Cycles |-> Nil]
    /\ err = [p \in Cycles |-> NoErr]
    /\ ch = [p \in Cycles |-> <<>>]
    /\ ret = [p \in Cycles |-> NotFetched]
    /\ fetches = [p \in Cycles |-> 0]
    /\ invoked = 0
    /\ calls = 0

(***************************************************************************)
(* Describe.                                                               *)
(***************************************************************************)
DescribeCall ==
    /\ dch' = Describe(c)
    /\ UNCHANGED <<c, pc, s, err, ch, ret, fetches, invoked, calls>>

(***************************************************************************)
(* Collect as one action: a whole call, from the fetch to the return.      *)
(***************************************************************************)
Collect(p, r) ==
    /\ pc[p] \in {"idle", "returned"}
    /\ calls < MaxCalls
    /\ LET run == CollectRun(c, r)
       IN  /\ pc' = [pc EXCEPT ![p] = run.end]
           /\ ch' = [ch EXCEPT ![p] = run.sent]
    /\ s' = [s EXCEPT ![p] = r.s]
    /\ err' = [err EXCEPT ![p] = r.err]
    /\ ret' = [ret EXCEPT ![p] = r]
    /\ fetches' = [fetches EXCEPT ![p] = 1]
    /\ invoked' = invoked + 1
    /\ calls' = calls + 1
    /\ UNCHANGED <<c, dch>>

\* Calls of Collect one after the other, any fetch result.
Next ==
    \/ DescribeCall
    \/ \E p \in SequentialCycles : \E r \in FetchResults : Collect(p, r)

Spec == Init /\ [][Next]_vars

(***************************************************************************)
(* Collect, one action per blocking step: the call of c.ss.Status(), its   *)
(* return, and each send on the channel.                                   *)
(***************************************************************************)
\* Collect is entered and invokes c.ss.Status().
CollectCall(p) ==
    /\ pc[p] \in {"idle", "returned"}
    /\ calls < MaxCalls
    /\ pc' = [pc EXCEPT ![p] = "status"]
    /\ s' = [s EXCEPT ![p] = Nil]
    /\ err' = [err EXCEPT ![p] = NoErr]
    /\ ch' = [ch EXCEPT ![p] = <<>>]
    /\ ret' = [ret EXCEPT ![p] = NotFetched]
    /\ fetches' = [fetches EXCEPT ![p] = 1]
    /\ invoked' = invoked + 1
    /\ calls' = calls + 1
    /\ UNCHANGED <<c, dch>>

\* c.ss.Status() returns r: s, err := r.
\* Faulty variants: a retry after a failed fetch; s kept in a place all
\* cycles share.
StatusReturnRetry(p, r) ==
    /\ pc[p] = "status"
    /\ IF r.err # NoErr /\ fetches[p] < 2
       THEN /\ fetches' = [fetches EXCEPT ![p] = @ + 1]
            /\ invoked' = invoked + 1
            /\ UNCHANGED <<pc, s, err, ret>>
       ELSE /\ pc' = [pc EXCEPT ![p] = "run"]
            /\ s' = [s EXCEPT ![p] = r.s]
            /\ err' = [err EXCEPT ![p] = r.err]
            /\ ret' = [ret EXCEPT ![p] = r]
            /\ UNCHANGED <<fetches, invoked>>
    /\ UNCHANGED <<c, dch, ch, calls>>
StatusReturnShared(p, r) ==
    /\ pc[p] = "status"
    /\ pc' = [pc EXCEPT ![p] = "run"]
    /\ s' = [q \in Cycles |-> r.s]
    /\ err' = [err EXCEPT ![p] = r.err]
    /\ ret' = [ret EXCEPT ![p] = r]
    /\ UNCHANGED <<c, dch, ch, fetches, invoked, calls>>
StatusReturn(p, r) ==
    /\ pc[p] = "status"
    /\ pc' = [pc EXCEPT ![p] = "run"]
    /\ s' = [s EXCEPT ![p] = r.s]
    /\ err' = [err EXCEPT ![p] = r.err]
    /\ ret' = [ret EXCEPT ![p] = r]
    /\ UNCHANGED <<c, dch, ch, fetches, invoked, calls>>

\* The next step of Collect after the fetch, on its locals s and err: the
\* next send (Collect returns after its last one) or the panic.
Step(p) ==
    /\ pc[p] = "run"
    /\ LET run == CollectRun(c, Result(s[p], err[p]))
           n   == Len(ch[p])
       IN  IF n < Len(run.sent)
           THEN /\ ch' = [ch EXCEPT ![p] = Append(@, run.sent[n + 1])]
                /\ pc' = [pc EXCEPT ![p] =
                             IF n + 1 = Len(run.sent) /\ run.end = "returned"
                             THEN "returned" ELSE "run"]
           ELSE /\ pc' = [pc EXCEPT ![p] = "panicked"]
                /\ UNCHANGED ch
    /\ UNCHANGED <<c, dch, s, err, ret, fetches, invoked, calls>>

\* Two calls of Collect in progress at once, interleaved at every step.
NextConcurrent ==
    \/ DescribeCall
    \/ \E p \in Cycles :
          \/ CollectCall(p)
          \/ \E r \in ConcurrentResults : StatusReturn(p, r)
          \/ Step(p)

SpecConcurrent == Init /\ [][NextConcurrent]_vars


(***************************************************************************)
(* Vocabulary of the properties.                                           *)
(***************************************************************************)
Range(f) == {f[k] : k \in DOMAIN f}

\* The magnitude of an int64, and the order of two int64.
I64Abs(a) == IF a[1] < 0 THEN I64Neg(a) ELSE a
I64Leq(a, b) == a[1] < b[1] \/ (a[1] = b[1] /\ a[2] <= b[2])

\* The call of Collect in cycle p returned normally after a fetch without
\* error: a successful collection cycle.
Successful(p) == pc[p] = "returned" /\ ret[p].err = NoErr /\ ret[p].s # Nil

\* The call of Collect in cycle p got an error from the status source.
FetchErred(p) == ret[p].err \in Errors

\* t occurs in text: text = before \o t \o after for some before and after.
Occurs(t, text) ==
    \E a \in 0..Len(text) : \E b \in a..Len(text) : SubSeq(text, a + 1, b) = t

\* The positions of the samples of descriptor d in a sequence of metrics.
SamplesOf(seq, d) == {k \in DOMAIN seq : seq[k].desc = d}

\* The positions of the status samples of token t in a sequence of metrics.
IndicatorsOf(seq, t) ==
    {k \in DOMAIN seq : /\ seq[k].desc.fqName = "status"
                        /\ Len(seq[k].labelValues) = 4
                        /\ seq[k].labelValues[4] = t}

\* The sum of the values of the status samples of a sequence of metrics.
RECURSIVE SumIndicators(_)
SumIndicators(seq) ==
    IF seq = <<>> THEN 0
    ELSE (IF Head(seq).desc.fqName = "status" THEN Head(seq).value.int[2] ELSE 0)
         + SumIndicators(Tail(seq))

SlaveToken     == <<"S", "L", "A", "V", "E">>
SlaveDownToken == <<"S", "L", "A", "V", "E", "D", "O", "W", "N">>

\* 2^53 as an int64.
TwoTo53 == I64(2^23, 0)

\* The three timestamp metrics: the descriptor and the snapshot's field.
TimestampFields(col, snap) ==
    { <<col.LastTransferOnBatteryTimeSeconds, snap.XOnBattery>>,
      <<col.LastTransferOffBatteryTimeSeconds, snap.XOffBattery>>,
      <<col.LastSelftestTimeSeconds, snap.LastSelftest>> }

(***************************************************************************)
(* C1.  A fetch error yields exactly one signal: an invalid metric on the  *)
(* Info descriptor that carries the error; no status, info or numeric      *)
(* sample is sent in that cycle.                                           *)
(***************************************************************************)
C1_FetchErrorOneInvalidMetric ==
    \A p \in Cycles :
        FetchErred(p) =>
            /\ pc[p] = "returned"
            /\ Len(ch[p]) = 1
            /\ ch[p][1].valueType = "Invalid"
            /\ ch[p][1].desc = c.Info
            /\ ch[p][1].desc.fqName = "info"
            /\ ch[p][1].err = ret[p].err

C1_Witness ==
    \E p \in Cycles : FetchErred(p) /\ ret[p].s # Nil /\ Len(ch[p]) = 1

(***************************************************************************)
(* C2.  In a successful cycle every one of the 13 tokens has exactly one   *)
(* indicator sample, 1 if the token occurs in the status text and 0 if     *)
(* not; the indicators sum to the number of tokens that occur.             *)
(***************************************************************************)
C2_IndicatorIsSubstringMembership ==
    \A p \in Cycles :
        Successful(p) =>
            LET text == ret[p].s.Status
            IN  /\ Len(upsStatus) = 13
                /\ \A k \in DOMAIN upsStatus :
                      LET ks == IndicatorsOf(ch[p], upsStatus[k])
                      IN  /\ Cardinality(ks) = 1
                          /\ \A j \in ks :
                                ch[p][j].value =
                                    (IF Occurs(upsStatus[k], text) THEN F(1) ELSE F(0))
                /\ SumIndicators(ch[p]) =
                      Cardinality({k \in DOMAIN upsStatus : Occurs(upsStatus[k], text)})

\* A successful cycle whose text holds two tokens, neither at its start only.
C2_Witness ==
    \E p \in Cycles :
        /\ Successful(p)
        /\ ret[p].s.Status = JoinTokens({4, 5})
        /\ SumIndicators(ch[p]) = 2

(***************************************************************************)
(* C3 as stated: a status text equal to a token sets that token's          *)
(* indicator and no other.                                                 *)
(***************************************************************************)
C3_TokenTextSetsOnlyItsIndicator ==
    \A p \in Cycles : \A k \in DOMAIN upsStatus :
        (Successful(p) /\ ret[p].s.Status = upsStatus[k]) =>
            \A j \in DOMAIN upsStatus : \A i \in IndicatorsOf(ch[p], upsStatus[j]) :
                ch[p][i].value = (IF j = k THEN F(1) ELSE F(0))

(***************************************************************************)
(* C3 amended.  SLAVE is a substring of SLAVEDOWN and no other token is a  *)
(* substring of another: a status text equal to a token sets that token's  *)
(* indicator and no other, except SLAVEDOWN, which sets SLAVE too.         *)
(***************************************************************************)
C3_TokenTextSetsOnlyItsIndicatorButSlave ==
    /\ \A i, j \in DOMAIN upsStatus :
          (i # j /\ Occurs(upsStatus[i], upsStatus[j])) =>
              (upsStatus[i] = SlaveToken /\ upsStatus[j] = SlaveDownToken)
    /\ \A p \in Cycles : \A k \in DOMAIN upsStatus :
          (Successful(p) /\ ret[p].s.Status = upsStatus[k]) =>
              \A j \in DOMAIN upsStatus :
                  /\ IndicatorsOf(ch[p], upsStatus[j]) # {}
                  /\ \A i \in IndicatorsOf(ch[p], upsStatus[j]) :
                        ch[p][i].value =
                            (IF j = k \/ (upsStatus[k] = SlaveDownToken
                                          /\ upsStatus[j] = SlaveToken)
                             THEN F(1) ELSE F(0))

C3_Witness ==
    \E p \in Cycles :
        /\ Successful(p)
        /\ ret[p].s.Status = SlaveDownToken
        /\ \E i \in IndicatorsOf(ch[p], SlaveToken) : ch[p][i].value = F(1)

(***************************************************************************)
(* C4 as stated: a successful cycle fetches once and sends exactly one     *)
(* sample for each descriptor of Describe.                                 *)
(***************************************************************************)
C4_OneSamplePerDescriptor ==
    \A p \in Cycles :
        Successful(p) =>
            /\ fetches[p] = 1
            /\ \A d \in Range(Describe(c)) : Cardinality(SamplesOf(ch[p], d)) = 1

(***************************************************************************)
(* C4 amended.  A successful cycle fetches once and sends exactly one      *)
(* sample for each descriptor of Describe other than Status, and 13        *)
(* samples for Status, one for each token: 30 samples in all.              *)
(***************************************************************************)
C4_OneSamplePerDescriptorButStatus ==
    \A p \in Cycles :
        Successful(p) =>
            /\ fetches[p] = 1
            /\ Len(ch[p]) = 30
            /\ \A d \in Range(Describe(c)) :
                  Cardinality(SamplesOf(ch[p], d)) = (IF d = c.Status THEN 13 ELSE 1)
            /\ \A k \in DOMAIN upsStatus :
                  Cardinality(IndicatorsOf(ch[p], upsStatus[k])) = 1

C4_Witness ==
    \E p \in Cycles :
        /\ Successful(p)
        /\ Cardinality(SamplesOf(ch[p], c.Status)) = 13
        /\ Cardinality(SamplesOf(ch[p], c.InternalTemperatureCelsius)) = 1

(***************************************************************************)
(* C5.  Describe sends 18 descriptors, each once; every signal of every    *)
(* cycle uses one of them; a successful cycle uses every one.              *)
(***************************************************************************)
C5_DescribeCollectLockStep ==
    LET ds == Describe(c)
    IN  /\ Len(ds) = 18
        /\ \A i, j \in DOMAIN ds : ds[i] = ds[j] => i = j
        /\ dch \in {<<>>, ds}
        /\ \A p \in Cycles :
              /\ \A k \in DOMAIN ch[p] : ch[p][k].desc \in Range(ds)
              /\ Successful(p) => \A d \in Range(ds) : SamplesOf(ch[p], d) # {}

C5_Witness ==
    /\ Len(dch) = 18
    /\ \E p \in Cycles : Successful(p) /\ Len(ch[p]) = 30

(***************************************************************************)
(* C6.  Every sample of a successful cycle carries the snapshot's device   *)
(* name, hostname and model, and nothing else, except the status samples,  *)
(* which carry a fourth label whose value is one of the 13 tokens.         *)
(***************************************************************************)
C6_LabelsAreIdentityPlusToken ==
    \A p \in Cycles :
        Successful(p) =>
            LET id == <<ret[p].s.UPSName, ret[p].s.Hostname, ret[p].s.Model>>
            IN  \A k \in DOMAIN ch[p] :
                    LET lv == ch[p][k].labelValues
                    IN  IF ch[p][k].desc = c.Status
                        THEN /\ Len(lv) = 4
                             /\ SubSeq(lv, 1, 3) = id
                             /\ lv[4] \in Range(upsStatus)
                        ELSE lv = id

\* A successful cycle whose status text is no token of the vocabulary.
C6_Witness ==
    \E p \in Cycles :
        /\ Successful(p)
        /\ ret[p].s.Status \notin Range(upsStatus)
        /\ ret[p].s.Status # <<>>
        /\ \E k \in DOMAIN ch[p] : Len(ch[p][k].labelValues) = 4

(***************************************************************************)
(* C7 as stated: each timestamp metric is 0 for the zero Time and          *)
(* otherwise exactly the Unix seconds of the Time.                         *)
(***************************************************************************)
C7_TimestampIsExactUnixSeconds ==
    \A p \in Cycles :
        Successful(p) =>
            \A f \in TimestampFields(c, ret[p].s) : \A k \in SamplesOf(ch[p], f[1]) :
                ch[p][k].value =
                    (IF f[2] = ZeroTime THEN F(0) ELSE Float(Unix(f[2]), 0))

(***************************************************************************)
(* C7 amended.  Each timestamp metric is 0 for the zero Time and otherwise *)
(* the float64 nearest to the Unix seconds of the Time, which is exactly   *)
(* the Unix seconds whenever their magnitude is at most 2^53; the zero     *)
(* Time never yields a negative value.                                     *)
(***************************************************************************)
C7_TimestampIsNearestFloatOfUnixSeconds ==
    \A p \in Cycles :
        Successful(p) =>
            \A f \in TimestampFields(c, ret[p].s) :
                /\ SamplesOf(ch[p], f[1]) # {}
                /\ \A k \in SamplesOf(ch[p], f[1]) :
                      LET v == ch[p][k].value
                          u == Unix(f[2])
                      IN  /\ f[2] = ZeroTime => v = F(0)
                          /\ f[2] # ZeroTime => v = Float64OfInt64(u)
                          /\ (f[2] # ZeroTime /\ I64Leq(I64Abs(u), TwoTo53)) =>
                                 v = Float(u, 0)

\* A successful cycle with a zero, a recent and a pre-1970 timestamp.
C7_Witness ==
    \E p \in Cycles :
        /\ Successful(p)
        /\ ret[p].s.XOnBattery = ZeroTime
        /\ ret[p].s.XOffBattery = RecentTime
        /\ ret[p].s.LastSelftest = Before1970Time
        /\ \E k \in SamplesOf(ch[p], c.LastTransferOnBatteryTimeSeconds) :
              ch[p][k].value = F(0)
        /\ \E k \in SamplesOf(ch[p], c.LastTransferOffBatteryTimeSeconds) :
              ch[p][k].value = Float(I64(1, 476258176), 0)

(***************************************************************************)
(* C8 as stated: a fetch without error always runs to completion and       *)
(* sends the 13 indicators, the info sample and the 16 numeric samples.    *)
(***************************************************************************)
C8_OnlyFetchErrorFails ==
    \A p \in Cycles :
        (ret[p] # NotFetched /\ ret[p].err = NoErr) =>
            /\ pc[p] = "returned"
            /\ Len(ch[p]) = 13 + 1 + 16

(***************************************************************************)
(* C9.  Cycles do not interfere: whatever the interleaving, what a cycle   *)
(* has sent is the start of what one run of Collect alone sends for the    *)
(* cycle's own fetch result, all of it once the cycle has ended, and the   *)
(* collector and its descriptors never change.                             *)
(***************************************************************************)
C9_CyclesAreIndependent ==
    /\ c = NewUPSCollector("ss")
    /\ dch \in {<<>>, Describe(NewUPSCollector("ss"))}
    /\ \A p \in Cycles :
          ret[p] # NotFetched =>
              LET alone == CollectRun(NewUPSCollector("ss"), ret[p])
              IN  /\ Len(ch[p]) <= Len(alone.sent)
                  /\ ch[p] = SubSeq(alone.sent, 1, Len(ch[p]))
                  /\ pc[p] \in {"returned", "panicked"} =>
                        (ch[p] = alone.sent /\ pc[p] = alone.end)
                  /\ s[p] = ret[p].s
                  /\ err[p] = ret[p].err

\* Two cycles in the middle of their sends, for different snapshots.
C9_Witness ==
    /\ pc[1] = "run" /\ pc[2] = "run"
    /\ ret[1].err = NoErr /\ ret[2].err = NoErr
    /\ ret[1].s # Nil /\ ret[2].s # Nil
    /\ ret[1] # ret[2]
    /\ Len(ch[1]) > 13 /\ Len(ch[2]) > 13

(***************************************************************************)
(* C10.  Every call of Collect invokes the status source exactly once,     *)
(* before it sends anything: after n calls the source was invoked n times. *)
(***************************************************************************)
C10_OneFetchPerCycle ==
    /\ invoked = calls
    /\ \A p \in Cycles :
          /\ pc[p] # "idle" => fetches[p] = 1
          /\ ch[p] # <<>> => (ret[p] # NotFetched /\ pc[p] # "status")

\* Three calls, one of which failed and one of which succeeded.
C10_Witness ==
    /\ calls >= 3
    /\ invoked >= 3
    /\ \E p, q \in Cycles :
          /\ pc[p] = "returned" /\ ret[p].err = "EOF" /\ Len(ch[p]) = 1
          /\ pc[q] = "returned" /\ ret[q].err = NoErr /\ Len(ch[q]) = 30

=============================================================================
